---------------------------- MODULE Spec2Model ----------------------------
(***************************************************************************)
(* A model of SNESRomHandler: rom.py (class RomHandler: construction and   *)
(* layout detection, little-endian read/write, PC <-> SNES address         *)
(* translation, expand, header toggles) and util.py (the bitplane tile     *)
(* codec and the tilemap compositor).                                      *)
(*                                                                         *)
(* Byte buffers (bytearray) are kept as a length and the finite map of     *)
(* their non-zero bytes; every address that is not in the map holds 0.     *)
(* Python integers are TLA+ integers; every value the model handles is     *)
(* below 2^31.                                                             *)
(***************************************************************************)
EXTENDS Integers, Sequences, FiniteSets, TLC

VARIABLES
    file,              \* the file handed to RomHandler(filename): [size, bytes]
    lifecycle,         \* "new" (not constructed), "ready", "failed" (__init__ raised)
    _rom_is_headered,  \* self._rom_is_headered
    _rom_size,         \* self._rom_size
    _header,           \* self._header (None until a header exists)
    _contents,         \* self._contents: [len, bytes]
    _type,             \* self._type (a RomType)
    ret,               \* the last call on the object and its outcome
    calls,             \* how many mutating calls the object has taken
    tile_in,           \* util.py: the argument of the tile codec call
    tile_out,          \* util.py: what the tile codec calls returned
    tilemaps,          \* util.py: image_from_raw_data's tilemaps argument
    DMA_writes,        \* util.py: image_from_raw_data's DMA_writes argument
    canvas,            \* util.py: image_from_raw_data's canvas dictionary
    next_tilemap,      \* util.py: position of `for tilemap in tilemaps`
    image              \* util.py: what image_from_raw_data returned (Running before)

romVars == <<file, lifecycle, _rom_is_headered, _rom_size, _header, _contents, _type, ret,
             calls>>
tileVars == <<tile_in, tile_out>>
imageVars == <<tilemaps, DMA_writes, canvas, next_tilemap, image>>
vars == <<file, lifecycle, _rom_is_headered, _rom_size, _header, _contents, _type, ret, calls,
          tile_in, tile_out, tilemaps, DMA_writes, canvas, next_tilemap, image>>

None == "None"

(***************************************************************************)
(* Results of calls: a returned value or a raised exception.               *)
(***************************************************************************)
Return(v) == [ok |-> TRUE, val |-> v, err |-> None]

Raise(e) == [ok |-> FALSE, val |-> None, err |-> e]

\* a call that has not returned yet
Running == [ok |-> FALSE, val |-> None, err |-> None]

(***************************************************************************)
(* class RomType(enum.Enum)                                                *)
(***************************************************************************)
LOROM == "LOROM"

HIROM == "HIROM"

EXLOROM == "EXLOROM"

EXHIROM == "EXHIROM"

RomType == {LOROM, HIROM, EXLOROM, EXHIROM}

(***************************************************************************)
(* bytearray: length and non-zero bytes.                                   *)
(***************************************************************************)
EmptyBytes == [a \in {} |-> 0]

\* b[a] of a buffer whose non-zero bytes are m
ByteAt(m, a) == IF a \in DOMAIN m THEN m[a] ELSE 0

\* the non-zero-byte map m after b[a] = v
SetByte(m, a, v) ==
    IF v = 0
    THEN [x \in DOMAIN m \ {a} |-> m[x]]
    ELSE [x \in DOMAIN m \cup {a} |-> IF x = a THEN v ELSE m[x]]

Min(a, b) == IF a <= b THEN a ELSE b

Max(a, b) == IF a >= b THEN a ELSE b

\* buf[start:stop] for 0 <= start: the bytes that exist in that range, as a sequence
Slice(buf, start, stop) ==
    LET lo == Min(start, buf.len)
        hi == Max(lo, Min(stop, buf.len))
    IN  [i \in 1..(hi - lo) |-> ByteAt(buf.bytes, lo + i - 1)]

RECURSIVE StoreAll(_, _, _)
\* the non-zero-byte map m with the sequence bs stored from address a on
StoreAll(m, a, bs) ==
    IF bs = <<>> THEN m
    ELSE StoreAll(SetByte(m, a, Head(bs)), a + 1, Tail(bs))

\* buf[start:stop] = bs for 0 <= start <= stop: a slice that reaches past the
\* end of the bytearray is clamped to it, so the bytes are then appended
SliceAssign(buf, start, stop, bs) ==
    LET lo == Min(start, buf.len)
        hi == Max(lo, Min(stop, buf.len))
        kept == [a \in {x \in DOMAIN buf.bytes : x < lo} |-> buf.bytes[a]]
        moved == {x \in DOMAIN buf.bytes : x >= hi}
        shift == Len(bs) - (hi - lo)
    IN  IF hi - lo = Len(bs)
        THEN [len |-> buf.len, bytes |-> StoreAll(buf.bytes, lo, bs)]
        ELSE [len |-> buf.len + shift,
              bytes |-> StoreAll([a \in {x \in DOMAIN buf.bytes : x < lo}
                                         \cup {x + shift : x \in moved} |->
                                     IF a < lo THEN buf.bytes[a] ELSE buf.bytes[a - shift]],
                                 lo, bs)]

\* buf.extend([0]*n)
Extend(buf, n) == [len |-> buf.len + n, bytes |-> buf.bytes]

(***************************************************************************)
(* struct.pack / struct.unpack with '<' (standard sizes, little endian).   *)
(***************************************************************************)
\* struct.calcsize('<' + code)
calcsize(code) == CASE code = "B" -> 1 [] code = "H" -> 2 [] code = "L" -> 4

RECURSIVE Pow256(_)
Pow256(n) == IF n = 0 THEN 1 ELSE 256 * Pow256(n - 1)

\* whether struct.pack accepts value for the format: 0 <= value < 256^calcsize
\* (for "L" the test is written so that 2^32 itself is never computed)
InRange(code, value) ==
    /\ value >= 0
    /\ CASE code = "B" -> value < 256
         [] code = "H" -> value < 65536
         [] code = "L" -> value \div 65536 < 65536

\* struct.pack('<' + code, value): the little-endian bytes, or struct.error
pack(code, value) ==
    IF InRange(code, value)
    THEN Return([i \in 1..calcsize(code) |-> (value \div Pow256(i - 1)) % 256])
    ELSE Raise("struct.error")

RECURSIVE LittleEndian(_)
LittleEndian(bs) == IF bs = <<>> THEN 0 ELSE Head(bs) + 256 * LittleEndian(Tail(bs))

\* struct.unpack('<' + code, bs)[0]: the buffer must have exactly calcsize bytes
unpack(code, bs) ==
    IF Len(bs) = calcsize(code) THEN Return(LittleEndian(bs)) ELSE Raise("struct.error")

(***************************************************************************)
(* RomHandler: byte codec.  A method that mutates the object returns the   *)
(* new buffer in "val"; a raise leaves the object as it was.               *)
(***************************************************************************)
HEADER_SIZE == 512

\* RomHandler._read_single(addr, size)
_read_single(contents, addr, size) ==
    LET extracted_bytes == Slice(contents, addr, addr + size)
    IN  CASE size = 1 -> unpack("B", extracted_bytes)
          [] size = 2 -> unpack("H", extracted_bytes)
          \* extracted_bytes.append(b'\x00'): bytearray.append takes an integer,
          \* so a bytes object makes it raise TypeError
          [] size = 3 -> Raise("TypeError")
          [] size = 4 -> unpack("L", extracted_bytes)
          [] OTHER -> Raise("NotImplementedError")

\* RomHandler.read(addr, encoding) with an integer encoding
read(contents, addr, encoding) == _read_single(contents, addr, encoding)

RECURSIVE read_str(_, _, _)
\* RomHandler.read(addr, encoding) with a string encoding, given as the sequence
\* of its digits: the list of values, or the first exception
read_str(contents, addr, encoding) ==
    IF encoding = <<>> THEN Return(<<>>)
    ELSE LET size == Head(encoding)
             first == _read_single(contents, addr, size)
             rest == read_str(contents, addr + size, Tail(encoding))
         IN  IF ~first.ok THEN first
             ELSE IF ~rest.ok THEN rest
             ELSE Return(<<first.val>> \o rest.val)

\* _write_single that cuts the value to size bytes before it packs it
_write_single_truncating(contents, value, addr, size) ==
    LET pack_code == CASE size = 1 -> "B" [] size = 2 -> "H" [] size = 3 -> "L"
                       [] size = 4 -> "L" [] OTHER -> None
        packed == pack(pack_code, IF size < 4 THEN value % Pow256(size) ELSE value)
    IN  IF pack_code = None THEN Raise("NotImplementedError")
        ELSE IF ~packed.ok THEN packed
        ELSE Return(SliceAssign(contents, addr, addr + size, SubSeq(packed.val, 1, size)))

\* RomHandler._write_single(value, addr, size): the new self._contents
_write_single(contents, value, addr, size) ==
    LET pack_code == CASE size = 1 -> "B" [] size = 2 -> "H" [] size = 3 -> "L"
                       [] size = 4 -> "L" [] OTHER -> None
        packed == pack(pack_code, value)
    IN  IF pack_code = None THEN Raise("NotImplementedError")
        ELSE IF ~packed.ok THEN packed
        ELSE Return(SliceAssign(contents, addr, addr + size, SubSeq(packed.val, 1, size)))

\* RomHandler.write(addr, values, encoding) with an integer encoding and value
write(contents, addr, values, encoding) == _write_single(contents, values, addr, encoding)

\* RomHandler._read_from_internal_header(offset, size)
_read_from_internal_header(contents, type, offset, size) ==
    IF type = LOROM \/ type = EXLOROM
    THEN read(contents, offset + \h7FC0, size)
    ELSE IF type = HIROM \/ type = EXHIROM
    THEN read(contents, offset + \hFFC0, size)
    ELSE Raise("AssertionError: unknown rom type")

\* RomHandler._write_to_internal_header(offset, value, size)
_write_to_internal_header(contents, type, offset, value, size) ==
    IF type = LOROM \/ type = EXLOROM
    THEN write(contents, offset + \h7FC0, value, size)
    ELSE IF type = HIROM \/ type = EXHIROM
    THEN write(contents, offset + \hFFC0, value, size)
    ELSE Raise("AssertionError: unknown rom type")

(***************************************************************************)
(* RomHandler.__init__: header inference from the file size, then layout   *)
(* detection (checksum, title characters, makeup byte).                    *)
(***************************************************************************)
LOROM_CHECKSUM_OFFSET == 32734

HIROM_CHECKSUM_OFFSET == 65502

LOWER_ASCII == 32

UPPER_ASCII == 126

ROM_TITLE_SIZE == 21

ErrFileSize == "AssertionError: not an even number of half banks"

ErrMakeup == "AssertionError: cannot recognize the makeup byte"

\* file.read(n) at the start of the file: the first n bytes
FileRead(f, n) ==
    [len |-> Min(n, f.size),
     bytes |-> [a \in {x \in DOMAIN f.bytes : x < n} |-> f.bytes[a]]]

\* file.read() after skip bytes were read: the rest of the file
FileReadRest(f, skip) ==
    [len |-> f.size - Min(skip, f.size),
     bytes |-> [a \in {x - skip : x \in {y \in DOMAIN f.bytes : y >= skip}} |->
                   f.bytes[a + skip]]]

\* sum(x >= LOWER_ASCII and x <= UPPER_ASCII for x in chars)
CharCount(chars) ==
    Cardinality({i \in 1..Len(chars) : chars[i] >= LOWER_ASCII /\ chars[i] <= UPPER_ASCII})

\* "1"*ROM_TITLE_SIZE, as the sequence of its digits
TitleEncoding == [i \in 1..ROM_TITLE_SIZE |-> 1]

\* ProvisionalType with the two checksum tests in the other order
ProvisionalType_hirom_first(contents) ==
    LET lo_sum == read(contents, LOROM_CHECKSUM_OFFSET, 2)
        lo_cmp == read(contents, LOROM_CHECKSUM_OFFSET - 2, 2)
        hi_sum == read(contents, HIROM_CHECKSUM_OFFSET, 2)
        hi_cmp == read(contents, HIROM_CHECKSUM_OFFSET - 2, 2)
        lo_title == read_str(contents, \h7FC0, TitleEncoding)
        hi_title == read_str(contents, \hFFC0, TitleEncoding)
    IN  IF ~hi_sum.ok THEN hi_sum
        ELSE IF ~hi_cmp.ok THEN hi_cmp
        ELSE IF hi_sum.val + hi_cmp.val = \hFFFF THEN Return(HIROM)
        ELSE IF ~lo_sum.ok THEN lo_sum
        ELSE IF ~lo_cmp.ok THEN lo_cmp
        ELSE IF lo_sum.val + lo_cmp.val = \hFFFF THEN Return(LOROM)
        ELSE IF ~lo_title.ok THEN lo_title
        ELSE IF ~hi_title.ok THEN hi_title
        ELSE IF CharCount(lo_title.val) >= CharCount(hi_title.val) THEN Return(LOROM)
        ELSE Return(HIROM)

\* The layout __init__ holds before it looks at the makeup byte: by the checksum
\* and its complement, else by the printable characters of the two titles
ProvisionalType(contents) ==
    LET lo_sum == read(contents, LOROM_CHECKSUM_OFFSET, 2)
        lo_cmp == read(contents, LOROM_CHECKSUM_OFFSET - 2, 2)
        hi_sum == read(contents, HIROM_CHECKSUM_OFFSET, 2)
        hi_cmp == read(contents, HIROM_CHECKSUM_OFFSET - 2, 2)
        lo_title == read_str(contents, \h7FC0, TitleEncoding)
        hi_title == read_str(contents, \hFFC0, TitleEncoding)
    IN  IF ~lo_sum.ok THEN lo_sum
        ELSE IF ~lo_cmp.ok THEN lo_cmp
        ELSE IF lo_sum.val + lo_cmp.val = \hFFFF THEN Return(LOROM)
        ELSE IF ~hi_sum.ok THEN hi_sum
        ELSE IF ~hi_cmp.ok THEN hi_cmp
        ELSE IF hi_sum.val + hi_cmp.val = \hFFFF THEN Return(HIROM)
        ELSE IF ~lo_title.ok THEN lo_title
        ELSE IF ~hi_title.ok THEN hi_title
        ELSE IF CharCount(lo_title.val) >= CharCount(hi_title.val) THEN Return(LOROM)
        ELSE Return(HIROM)

\* MakeupType without the SA-1 exemption: makeup byte 0x23 is refused
MakeupType_no_sa1(contents, type) ==
    LET makeup_byte == _read_from_internal_header(contents, type, \h15, 1)
    IN  IF ~makeup_byte.ok THEN makeup_byte
        ELSE IF type = LOROM
        THEN IF makeup_byte.val \in {\h20, \h30} THEN Return(type)
             ELSE IF makeup_byte.val = \h32 THEN Return(EXLOROM)
             ELSE Raise(ErrMakeup)
        ELSE IF type = HIROM
        THEN IF makeup_byte.val \in {\h21, \h31} THEN Return(type)
             ELSE IF makeup_byte.val = \h35 THEN Return(EXHIROM)
             ELSE Raise(ErrMakeup)
        ELSE Return(type)

\* The makeup-byte check of __init__ on the provisional layout type
MakeupType(contents, type) ==
    LET makeup_byte == _read_from_internal_header(contents, type, \h15, 1)
    IN  IF ~makeup_byte.ok THEN makeup_byte
        ELSE IF type = LOROM
        THEN IF makeup_byte.val \notin {\h20, \h30}
             THEN IF makeup_byte.val = \h32 THEN Return(EXLOROM)
                  ELSE IF makeup_byte.val = \h23 THEN Return(type)
                  ELSE Raise(ErrMakeup)
             ELSE Return(type)
        ELSE IF type = HIROM
        THEN IF makeup_byte.val \notin {\h21, \h31}
             THEN IF makeup_byte.val = \h35 THEN Return(EXHIROM)
                  ELSE IF makeup_byte.val = \h23 THEN Return(type)
                  ELSE Raise(ErrMakeup)
             ELSE Return(type)
        ELSE Return(type)

\* RomHandler.__init__(filename): the fields of the new object, or the exception
__init__(f) ==
    LET headered == f.size % \h8000 = HEADER_SIZE
        contents == FileReadRest(f, IF headered THEN HEADER_SIZE ELSE 0)
        provisional == ProvisionalType(contents)
        final == MakeupType(contents, provisional.val)
    IN  IF f.size % \h8000 # 0 /\ ~headered THEN Raise(ErrFileSize)
        ELSE IF ~provisional.ok THEN provisional
        ELSE IF ~final.ok THEN final
        ELSE Return([_rom_is_headered |-> headered,
                     _rom_size |-> IF headered THEN f.size - HEADER_SIZE ELSE f.size,
                     _header |-> IF headered THEN FileRead(f, HEADER_SIZE) ELSE None,
                     _contents |-> contents,
                     _type |-> final.val])

(***************************************************************************)
(* RomHandler: address translation.                                        *)
(***************************************************************************)
ErrOutsideRom == "AssertionError: outside the ROM file"

ErrOutsideSnes == "AssertionError: outside SNES address space"

ErrNotMapped == "AssertionError: not mapped"

ErrBeyondRom == "AssertionError: maps beyond the ROM"

\* RomHandler.convert_to_snes_address(addr)
convert_to_snes_address(type, rom_size, addr) ==
    LET bank == addr \div \h8000
        offset == addr % \h8000
    IN  IF addr > rom_size \/ addr < 0 THEN Raise(ErrOutsideRom)
        ELSE IF type = LOROM
        THEN Return((bank + \h80) * \h10000 + (offset + \h8000))
        ELSE IF type = HIROM
        THEN Return(addr + \h800000)
        ELSE IF type = EXLOROM
        THEN IF bank < \h40 THEN Return((bank + \h80) * \h10000 + (offset + \h8000))
             ELSE IF bank < \h7F THEN Return((bank - \h80) * \h10000 + (offset + \h8000))
             ELSE Raise(ErrNotMapped)
        ELSE IF type = EXHIROM
        THEN IF addr < \h400000 THEN Return(addr + \hC00000)
             ELSE IF addr < \h7E0000 THEN Return(addr)
             ELSE IF addr % \h10000 > \h8000 THEN Return(addr - \h400000)
             ELSE Raise(ErrNotMapped)
        ELSE Raise("NotImplementedError")

\* the check that ends convert_to_pc_address
WithinRom(rom_size, pc_address) ==
    IF pc_address > rom_size THEN Raise(ErrBeyondRom) ELSE Return(pc_address)

\* convert_to_pc_address, the HIROM branch
HiRomToPc(rom_size, bank, offset) ==
    IF bank \in {\h7E, \h7F} \/ (bank < \hC0 /\ offset < \h8000)
    THEN Raise(ErrNotMapped)
    ELSE WithinRom(rom_size, (bank \div \h40) * \h10000 + offset)

\* RomHandler.convert_to_pc_address(addr)
convert_to_pc_address(type, rom_size, addr) ==
    LET bank == addr \div \h10000
        offset0 == addr % \h10000
        \* the LOROM and EXLOROM branches first move the lower half of banks
        \* 0x40..0x6F up
        offset == IF bank >= \h40 /\ bank < \h70 /\ offset0 < \h8000
                  THEN offset0 + \h8000 ELSE offset0
    IN  IF addr > \hFFFFFF \/ addr < 0 THEN Raise(ErrOutsideSnes)
        ELSE IF type = LOROM
        THEN IF offset < \h8000 \/ bank \in {\h7E, \h7F}
             THEN Raise(ErrNotMapped)
             ELSE WithinRom(rom_size, (bank % \h80) * \h8000 + (offset - \h8000))
        ELSE IF type = HIROM
        THEN HiRomToPc(rom_size, bank, offset0)
        ELSE IF type = EXLOROM
        THEN IF bank >= \h80 /\ offset >= \h8000
             THEN WithinRom(rom_size, (bank - \h80) * \h8000 + (offset - \h8000))
             ELSE IF bank \notin {\h7E, \h7F} /\ offset >= \h8000
             THEN WithinRom(rom_size, (bank + \h80) * \h8000 + (offset - \h8000))
             ELSE Raise(ErrNotMapped)
        ELSE IF type = EXHIROM
        THEN IF bank >= \hC0
             THEN WithinRom(rom_size, (bank - \hC0) * \h10000 + offset0)
             ELSE IF bank >= \h40 /\ bank < \h7E
             THEN WithinRom(rom_size, bank * \h10000 + offset0)
             ELSE IF bank \in {\h3E, \h3F} /\ offset0 > \h8000
             THEN WithinRom(rom_size, (bank + \h40) * \h10000 + offset0)
             ELSE IF bank >= \h80 /\ bank < \hC0 /\ offset0 >= \h8000
             THEN WithinRom(rom_size, (bank - \h80) * \h10000 + offset0)
             ELSE IF bank < \h3E /\ offset0 >= \h8000
             THEN WithinRom(rom_size, (bank + \h40) * \h10000 + offset0)
             ELSE Raise(ErrNotMapped)
        ELSE Raise("NotImplementedError")

(***************************************************************************)
(* RomHandler.expand                                                       *)
(***************************************************************************)
ErrAlreadyThatSize == "AssertionError: the ROM is already that size"

RECURSIVE bit_length(_)
\* int.bit_length() of a non-negative integer
bit_length(n) == IF n = 0 THEN 0 ELSE 1 + bit_length(n \div 2)

\* RomHandler.expand(size): the new self._contents, or the exception.  The
\* comparison size <= self._rom_size/0x20000 is one of an integer with a float
\* quotient, which is size*0x20000 <= self._rom_size
expand(contents, type, rom_size, size) ==
    LET size_code == \h07 + bit_length(size - 1)
        written == _write_to_internal_header(contents, type, \h17, size_code, 1)
        pad_byte_amount == size * \h20000 - rom_size
    IN  IF size < 4 \/ size > 32 \/ size % 4 # 0 THEN Raise("NotImplementedError")
        ELSE IF size * \h20000 <= rom_size THEN Raise(ErrAlreadyThatSize)
        ELSE IF ~written.ok THEN written
        ELSE Return(Extend(written.val, pad_byte_amount))

(***************************************************************************)
(* The object's life: construction, then calls.  Each action is one call;  *)
(* a call that raises leaves the object as it was and is recorded in ret.  *)
(***************************************************************************)
Construct ==
    /\ lifecycle = "new"
    /\ LET made == __init__(file)
       IN  /\ lifecycle' = IF made.ok THEN "ready" ELSE "failed"
           /\ _rom_is_headered' = IF made.ok THEN made.val._rom_is_headered ELSE None
           /\ _rom_size' = IF made.ok THEN made.val._rom_size ELSE None
           /\ _header' = IF made.ok THEN made.val._header ELSE None
           /\ _contents' = IF made.ok THEN made.val._contents ELSE None
           /\ _type' = IF made.ok THEN made.val._type ELSE None
           /\ ret' = [op |-> "__init__", ok |-> made.ok, err |-> made.err]
    /\ UNCHANGED <<file, calls, tileVars, imageVars>>

\* rom.read(addr, encoding), an integer encoding.  A 4-byte value is read only
\* where it stays below 2^31
CallRead(Addrs, Encodings) ==
    /\ lifecycle = "ready"
    /\ \E addr \in Addrs, encoding \in Encodings :
          /\ encoding = 4 => ByteAt(_contents.bytes, addr + 3) < 128
          /\ LET got == read(_contents, addr, encoding)
             IN  ret' = [op |-> "read", addr |-> addr, encoding |-> encoding,
                         ok |-> got.ok, val |-> got.val, err |-> got.err]
    /\ UNCHANGED <<file, lifecycle, _rom_is_headered, _rom_size, _header, _contents, _type,
                   calls, tileVars, imageVars>>

\* rom.write(addr, values, encoding), an integer encoding and an integer value
CallWrite(Addrs, Values, Encodings, limit) ==
    /\ lifecycle = "ready"
    /\ calls < limit
    /\ \E addr \in Addrs, values \in Values, encoding \in Encodings :
          LET done == write(_contents, addr, values, encoding)
          IN  /\ _contents' = IF done.ok THEN done.val ELSE _contents
              /\ ret' = [op |-> "write", addr |-> addr, values |-> values,
                         encoding |-> encoding, ok |-> done.ok, err |-> done.err]
    /\ calls' = calls + 1
    /\ UNCHANGED <<file, lifecycle, _rom_is_headered, _rom_size, _header, _type,
                   tileVars, imageVars>>

\* rom.convert_to_snes_address(addr)
CallConvertToSnes(Addrs) ==
    /\ lifecycle = "ready"
    /\ \E addr \in Addrs :
          LET got == convert_to_snes_address(_type, _rom_size, addr)
          IN  ret' = [op |-> "convert_to_snes_address", addr |-> addr,
                      ok |-> got.ok, val |-> got.val, err |-> got.err]
    /\ UNCHANGED <<file, lifecycle, _rom_is_headered, _rom_size, _header, _contents, _type,
                   calls, tileVars, imageVars>>

\* rom.convert_to_pc_address(addr); of_pc is the PC address the argument was
\* converted from, -2 when it was not
CallConvertToPc(Addrs) ==
    /\ lifecycle = "ready"
    /\ \E addr \in Addrs :
          LET got == convert_to_pc_address(_type, _rom_size, addr)
          IN  ret' = [op |-> "convert_to_pc_address", addr |-> addr, of_pc |-> -2,
                      ok |-> got.ok, val |-> got.val, err |-> got.err]
    /\ UNCHANGED <<file, lifecycle, _rom_is_headered, _rom_size, _header, _contents, _type,
                   calls, tileVars, imageVars>>

\* rom.convert_to_pc_address(rom.convert_to_snes_address(p)): the call on the
\* address the previous call returned
CallConvertBack ==
    /\ lifecycle = "ready"
    /\ ret.op = "convert_to_snes_address"
    /\ ret.ok
    /\ LET got == convert_to_pc_address(_type, _rom_size, ret.val)
       IN  ret' = [op |-> "convert_to_pc_address", addr |-> ret.val, of_pc |-> ret.addr,
                   ok |-> got.ok, val |-> got.val, err |-> got.err]
    /\ UNCHANGED <<file, lifecycle, _rom_is_headered, _rom_size, _header, _contents, _type,
                   calls, tileVars, imageVars>>

\* rom.expand(size)
CallExpand(Sizes, limit) ==
    /\ lifecycle = "ready"
    /\ calls < limit
    /\ \E size \in Sizes :
          LET done == expand(_contents, _type, _rom_size, size)
          IN  /\ _contents' = IF done.ok THEN done.val ELSE _contents
              /\ ret' = [op |-> "expand", size |-> size, ok |-> done.ok, err |-> done.err]
    /\ calls' = calls + 1
    /\ UNCHANGED <<file, lifecycle, _rom_is_headered, _rom_size, _header, _type,
                   tileVars, imageVars>>

\* rom.add_header()
add_header(limit) ==
    /\ lifecycle = "ready"
    /\ calls < limit
    /\ _rom_is_headered' = TRUE
    /\ _header' = [len |-> HEADER_SIZE, bytes |-> EmptyBytes]
    /\ ret' = [op |-> "add_header", ok |-> TRUE, err |-> None]
    /\ calls' = calls + 1
    /\ UNCHANGED <<file, lifecycle, _rom_size, _contents, _type, tileVars, imageVars>>

\* rom.remove_header()
remove_header(limit) ==
    /\ lifecycle = "ready"
    /\ calls < limit
    /\ _rom_is_headered' = FALSE
    /\ ret' = [op |-> "remove_header", ok |-> TRUE, err |-> None]
    /\ calls' = calls + 1
    /\ UNCHANGED <<file, lifecycle, _rom_size, _header, _contents, _type, tileVars, imageVars>>

\* rom.type()
CallType ==
    /\ lifecycle = "ready"
    /\ ret.op # "type"
    /\ ret' = [op |-> "type", ok |-> TRUE, val |-> _type, err |-> None]
    /\ UNCHANGED <<file, lifecycle, _rom_is_headered, _rom_size, _header, _contents, _type,
                   calls, tileVars, imageVars>>

(***************************************************************************)
(* Files.  A file is its size and its non-zero bytes.                      *)
(***************************************************************************)
\* the bytes bs laid from address a on
At(a, bs) == [x \in a..(a + Len(bs) - 1) |-> bs[x - a + 1]]

\* a file of the given size whose body (after the 512 bytes of an SMC header,
\* when it has one) holds the bytes of the map body and zeros elsewhere
MakeFile(body_size, headered, body) ==
    LET skip == IF headered THEN HEADER_SIZE ELSE 0
        nonzero == {a \in DOMAIN body : body[a] # 0}
    IN  [size |-> body_size + skip,
         bytes |-> [a \in {x + skip : x \in nonzero} |-> body[a - skip]]]

\* the two bytes of a 16-bit value, little endian
Word(v) == <<v % 256, v \div 256>>

\* checksum complement and checksum as they sit before an internal header's end
ChecksumBytes(complement, checksum) == Word(complement) \o Word(checksum)

\* a 21-byte title with k printable characters first, the rest not printable;
\* both kinds take the values at the edges of the printable range
Title(k) ==
    [i \in 1..ROM_TITLE_SIZE |->
        IF i <= k THEN (IF i % 2 = 1 THEN LOWER_ASCII ELSE UPPER_ASCII)
        ELSE (IF i % 3 = 0 THEN 0 ELSE IF i % 3 = 1 THEN LOWER_ASCII - 1 ELSE UPPER_ASCII + 1)]

\* the internal header fields the constructor looks at, for the header at base
HeaderFields(base, title, makeup, sums) ==
    At(base, title) @@ At(base + \h15, <<makeup>>) @@ At(base + \h1C, sums)

RomNotMade ==
    /\ lifecycle = "new"
    /\ _rom_is_headered = None
    /\ _rom_size = None
    /\ _header = None
    /\ _contents = None
    /\ _type = None
    /\ ret = [op |-> "none", ok |-> TRUE, err |-> None]
    /\ calls = 0

UtilIdle ==
    /\ tile_in = None
    /\ tile_out = None
    /\ tilemaps = <<>>
    /\ DMA_writes = <<>>
    /\ canvas = <<>>
    /\ next_tilemap = 0
    /\ image = Running

(***************************************************************************)
(* SpecDetect: construction from many files.                               *)
(***************************************************************************)
DetectSizes == {\h8000, \h80000, \h80000 + 512, \h80001}

DetectMakeups == {\h00, \h20, \h21, \h23, \h30, \h31, \h32, \h35}

DetectTitles == {Title(0), Title(20), Title(21)}

\* pairs (complement, checksum): two that add up to 0xFFFF and one that does not
DetectSums == {<<\hEDCB, \h1234>>, <<\h0000, \hFFFF>>, <<\hEDCB, \h1235>>}

DetectFiles ==
    {MakeFile(size - (size % \h8000), size % \h8000 = HEADER_SIZE,
              HeaderFields(\h7FC0, lo_title, lo_makeup, ChecksumBytes(lo_sums[1], lo_sums[2]))
              @@ HeaderFields(\hFFC0, hi_title, hi_makeup,
                              ChecksumBytes(hi_sums[1], hi_sums[2]))) :
        size \in DetectSizes \ {\h80001}, lo_title \in DetectTitles, hi_title \in DetectTitles,
        lo_makeup \in DetectMakeups, hi_makeup \in DetectMakeups,
        lo_sums \in DetectSums, hi_sums \in DetectSums \ {<<\h0000, \hFFFF>>}}
    \cup {[size |-> \h80001, bytes |-> EmptyBytes]}

InitDetect == file \in DetectFiles /\ RomNotMade /\ UtilIdle

NextDetect == Construct \/ CallType

SpecDetect == InitDetect /\ [][NextDetect]_vars

(***************************************************************************)
(* Layout detection, stated on the bytes of the file.                      *)
(***************************************************************************)
\* whether the file has an SMC header, by its size
FileHeadered == file.size % \h8000 = HEADER_SIZE

\* byte a of the file's body
BodyByte(a) == ByteAt(file.bytes, a + (IF FileHeadered THEN HEADER_SIZE ELSE 0))

\* the 16-bit little-endian value at address a of the file's body
BodyWord(a) == BodyByte(a) + 256 * BodyByte(a + 1)

BodySize == file.size - (IF FileHeadered THEN HEADER_SIZE ELSE 0)

\* the checksum at a and the complement before it add up to 0xFFFF
SumsAgree(a) == BodyWord(a) + BodyWord(a - 2) = 65535

\* the number of printable characters among the 21 from address a on
Printable(a) == Cardinality({i \in 0..20 : BodyByte(a + i) >= 32 /\ BodyByte(a + i) <= 126})

\* the layout the first two detection steps give: checksum, then titles
ProvisionalLayout ==
    IF SumsAgree(32734) THEN LOROM
    ELSE IF SumsAgree(65502) THEN HIROM
    ELSE IF Printable(32704) >= Printable(65472) THEN LOROM
    ELSE HIROM

\* the makeup byte of the provisional layout's internal header
ProvisionalMakeup == BodyByte((IF ProvisionalLayout = LOROM THEN 32704 ELSE 65472) + 21)

\* construction ran and every byte it looks at exists
Detected ==
    /\ lifecycle # "new"
    /\ file.size % \h8000 \in {0, HEADER_SIZE}
    /\ BodySize >= (IF SumsAgree(32734) THEN 32768 ELSE 65536)

\* C7 as stated: a headerless 0x80000-byte image whose checksum at 0x7FDE and
\* complement at 0x7FDC add up to 0xFFFF is constructed and is LoROM, whatever
\* else it holds.
C7_AlwaysLoRom ==
    (lifecycle # "new" /\ file.size = \h80000 /\ SumsAgree(32734))
        => (lifecycle = "ready" /\ _type = LOROM)

\* C7 amended: for a headerless 0x80000-byte image whose checksum at 0x7FDE and
\* complement at 0x7FDC add up to 0xFFFF, whatever the HiROM checksum and the
\* titles are, construction succeeds as LoROM when the makeup byte at 0x7FD5 is
\* 0x20, 0x30 or 0x23, succeeds as ExLoROM when it is 0x32, and fails with the
\* unrecognized-makeup-byte error for every other makeup byte.
C7_LoRomByMakeup ==
    (lifecycle # "new" /\ file.size = \h80000 /\ SumsAgree(32734))
        => IF BodyByte(32725) \in {32, 48, 35} THEN lifecycle = "ready" /\ _type = LOROM
           ELSE IF BodyByte(32725) = 50 THEN lifecycle = "ready" /\ _type = EXLOROM
           ELSE lifecycle = "failed" /\ ret.err = ErrMakeup

\* C7 witness: a LoROM constructed from such an image although the HiROM
\* checksum agrees too and the HiROM title has more printable characters
C7_Witness ==
    /\ lifecycle = "ready"
    /\ file.size = \h80000
    /\ SumsAgree(32734)
    /\ SumsAgree(65502)
    /\ Printable(65472) > Printable(32704)
    /\ BodyByte(32725) = 35
    /\ ret.op = "type"
    /\ ret.val = LOROM

\* C8: the provisional layout P comes from the checksum test, else from the
\* title characters (ties give LoROM); the final layout is decided by P and the
\* makeup byte m of P's header: LoROM for P=LoROM and m in {0x20,0x30,0x23},
\* ExLoROM for P=LoROM and m=0x32, HiROM for P=HiROM and m in {0x21,0x31,0x23},
\* ExHiROM for P=HiROM and m=0x35, and the unrecognized-makeup-byte error for
\* every other pair; so an ExLoROM has makeup byte 0x32 and an ExHiROM 0x35.
C8_LayoutByMakeup ==
    /\ Detected =>
          LET P == ProvisionalLayout
              m == ProvisionalMakeup
          IN  IF P = LOROM /\ m \in {32, 48, 35} THEN lifecycle = "ready" /\ _type = LOROM
              ELSE IF P = LOROM /\ m = 50 THEN lifecycle = "ready" /\ _type = EXLOROM
              ELSE IF P = HIROM /\ m \in {33, 49, 35} THEN lifecycle = "ready" /\ _type = HIROM
              ELSE IF P = HIROM /\ m = 53 THEN lifecycle = "ready" /\ _type = EXHIROM
              ELSE lifecycle = "failed" /\ ret.err = ErrMakeup
    /\ (lifecycle = "ready" /\ _type = EXLOROM) => BodyByte(32704 + 21) = 50
    /\ (lifecycle = "ready" /\ _type = EXHIROM) => BodyByte(65472 + 21) = 53

\* C8 witness: an ExHiROM found by the title characters (no checksum agrees)
\* from a file with an SMC header
C8_Witness ==
    /\ lifecycle = "ready"
    /\ _type = EXHIROM
    /\ FileHeadered
    /\ ~SumsAgree(32734)
    /\ ~SumsAgree(65502)
    /\ Printable(65472) = Printable(32704) + 1

(***************************************************************************)
(* SpecAddr: address translation on constructed ROMs of every layout.      *)
(***************************************************************************)
\* a well-formed ROM file of the given layout: the checksum of its internal
\* header agrees and its makeup byte names the layout
RomFile(type, body_size, headered) ==
    LET base == IF type \in {LOROM, EXLOROM} THEN \h7FC0 ELSE \hFFC0
        makeup == CASE type = LOROM -> \h20 [] type = HIROM -> \h21
                    [] type = EXLOROM -> \h32 [] type = EXHIROM -> \h35
    IN  MakeFile(body_size, headered,
                 HeaderFields(base, Title(21), makeup, ChecksumBytes(\hEDCB, \h1234)))

\* 4, 32, 48 and 64 Mbit
AddrRomSizes == {\h80000, \h400000, \h600000, \h800000}

AddrFiles == {RomFile(type, size, FALSE) : type \in RomType, size \in AddrRomSizes}

\* PC addresses: the first, second and last byte of 32 KiB banks on both sides
\* of every boundary the layouts know, and one address below zero
AddrPcBanks == {\h00, \h01, \h0F, \h10, \h3F, \h40, \h7E, \h7F, \h80, \hBF, \hC0,
                \hFB, \hFC, \hFD, \hFE, \hFF, \h100}

AddrPcAddresses ==
    {bank * \h8000 + offset : bank \in AddrPcBanks, offset \in {\h0, \h1, \h7FFF}} \cup {-1}

\* SNES addresses: in banks on both sides of every boundary, at the edges of
\* the two halves of a bank, and the two addresses just outside the space
AddrSnesBanks == {\h00, \h3D, \h3E, \h3F, \h40, \h6F, \h70, \h7D, \h7E, \h7F, \h80,
                  \hBF, \hC0, \hFF}

AddrSnesAddresses ==
    {bank * \h10000 + offset : bank \in AddrSnesBanks,
                               offset \in {\h0, \h7FFF, \h8000, \h8001, \hFFFF}}
    \cup {-1, \h1000000}

InitAddr == file \in AddrFiles /\ RomNotMade /\ UtilIdle

NextAddr ==
    \/ Construct
    \/ CallConvertToSnes(AddrPcAddresses)
    \/ CallConvertToPc(AddrSnesAddresses)
    \/ CallConvertBack

SpecAddr == InitAddr /\ [][NextAddr]_vars

\* C1 as stated: in every layout, for every PC address p with 0 <= p < rom_size
\* that convert_to_snes_address accepts,
\* convert_to_pc_address(convert_to_snes_address(p)) succeeds and returns p.
C1_RoundTrip ==
    (lifecycle = "ready" /\ ret.op = "convert_to_pc_address" /\ ret.of_pc # -2
        /\ ret.of_pc >= 0 /\ ret.of_pc < _rom_size)
        => (ret.ok /\ ret.val = ret.of_pc)

\* C2 as stated: under HiROM, on a ROM large enough to hold the result,
\* convert_to_pc_address(0xC00000) returns 0x400000.
C2_HiRomC00000 ==
    (lifecycle = "ready" /\ _type = HIROM /\ _rom_size >= \h400000
        /\ ret.op = "convert_to_pc_address" /\ ret.addr = \hC00000)
        => (ret.ok /\ ret.val = \h400000)

(***************************************************************************)
(* SpecRW: reads and writes of every width on one ROM.                     *)
(***************************************************************************)
MaxWrites == 2

RWFiles == {RomFile(LOROM, \h80000, FALSE)}

\* the address of the checksum complement and the one after it
RWAddresses == {\h7FDC, \h7FDD}

\* values at both sides of every width's limit that is below 2^31
RWValues == {\h0, \hFF, \h100, \h1F2F, \hFFFF, \h10000, \hFFFFFF, \h1000000, \h7FFFFFFF}

RWEncodings == {1, 2, 3, 4, 5}

InitRW == file \in RWFiles /\ RomNotMade /\ UtilIdle

NextRW ==
    \/ Construct
    \/ CallWrite(RWAddresses, RWValues, RWEncodings, MaxWrites)
    \/ CallRead(RWAddresses, RWEncodings)

SpecRW == InitRW /\ [][NextRW]_vars

\* the w bytes at addr are the little-endian bytes of v mod 2^(8w)
StoredLittleEndian(contents, addr, v, w) ==
    \A i \in 0..(w - 1) : ByteAt(contents.bytes, addr + i) = (v \div Pow256(i)) % 256

\* v < 2^(8w), for the values of the model (all below 2^31)
FitsWidth(v, w) == w = 4 \/ v < Pow256(w)

\* C5 as stated: for w in {1,2,3,4}, addr+w inside the buffer and
\* 0 <= v < 2^(8w), after write(addr, v, w) the bytes at addr are the
\* little-endian bytes of v and read(addr, w) returns v (for w = 3 too).
C5_WriteThenRead ==
    [][(/\ lifecycle = "ready"
        /\ ret.op = "write"
        /\ ret.encoding \in 1..4
        /\ ret.values >= 0
        /\ FitsWidth(ret.values, ret.encoding)
        /\ ret.addr + ret.encoding <= _contents.len
        /\ ret'.op = "read"
        /\ ret'.addr = ret.addr
        /\ ret'.encoding = ret.encoding)
       => (/\ ret.ok
           /\ StoredLittleEndian(_contents, ret.addr, ret.values, ret.encoding)
           /\ ret'.ok
           /\ ret'.val = ret.values)]_vars

\* C6 as stated: write(addr, v, w) for w in {1,2,3,4} never checks overflow:
\* for every v >= 0, also v >= 2^(8w), it succeeds and stores v mod 2^(8w),
\* little endian, in the w bytes at addr.
C6_NoOverflowCheck ==
    (lifecycle = "ready" /\ ret.op = "write" /\ ret.encoding \in 1..4 /\ ret.values >= 0)
        => (ret.ok /\ StoredLittleEndian(_contents, ret.addr, ret.values, ret.encoding))

\* C6 amended: write(addr, v, w) for w in {1,2,3,4} and v >= 0 raises
\* struct.error and leaves the buffer as it was when v does not fit the format
\* it packs with (v >= 2^8 for w = 1, v >= 2^16 for w = 2, v >= 2^32 for w = 3
\* and w = 4); otherwise it succeeds and stores v mod 2^(8w), little endian,
\* in the w bytes at addr, so that only a width-3 write cuts a value
\* (2^24 <= v < 2^32).
C6_OverflowByPackFormat ==
    [][(lifecycle = "ready" /\ ret'.op = "write" /\ calls' = calls + 1
        /\ ret'.encoding \in 1..4 /\ ret'.values >= 0)
       => IF \/ ret'.encoding = 1 /\ ret'.values >= 256
             \/ ret'.encoding = 2 /\ ret'.values >= 65536
             \/ ret'.encoding \in {3, 4} /\ ret'.values \div 65536 >= 65536
          THEN ~ret'.ok /\ ret'.err = "struct.error" /\ _contents' = _contents
          ELSE /\ ret'.ok
               /\ StoredLittleEndian(_contents', ret'.addr, ret'.values, ret'.encoding)
               /\ _contents'.len = _contents.len]_vars

\* C6 witness: a width-3 write of 0x7FFFFFFF went through and left FF FF FF at
\* addr, and the byte after them is not FF
C6_Witness ==
    /\ lifecycle = "ready"
    /\ ret.op = "write"
    /\ ret.ok
    /\ ret.encoding = 3
    /\ ret.values = \h7FFFFFFF
    /\ \A i \in 0..2 : ByteAt(_contents.bytes, ret.addr + i) = 255
    /\ ByteAt(_contents.bytes, ret.addr + 3) # 255

(***************************************************************************)
(* Spec: a constructed ROM under expand, write, read and the header        *)
(* toggles.                                                                *)
(***************************************************************************)
MaxCalls == 3

\* a 4-Mbit and an 8-Mbit LoROM, a 4-Mbit HiROM with an SMC header, and a
\* 4.5-Mbit ExLoROM
RomFiles == {RomFile(LOROM, \h80000, FALSE), RomFile(LOROM, \h100000, FALSE),
             RomFile(HIROM, \h80000, TRUE), RomFile(EXLOROM, \h90000, FALSE)}

\* megabits: multiples of 4 in 4..32, and 6 and 36, which expand refuses
ExpandSizes == {4, 6, 8, 12, 36}

\* the checksum complement, and the last two bytes of a 4-Mbit ROM
WriteAddresses == {\h7FDC, \h7FFFE}

WriteValues == {\h1F2F}

WriteEncodings == {2, 4}

Init == file \in RomFiles /\ RomNotMade /\ UtilIdle

Next ==
    \/ Construct
    \/ CallExpand(ExpandSizes, MaxCalls)
    \/ CallWrite(WriteAddresses, WriteValues, WriteEncodings, MaxCalls)
    \/ CallRead(WriteAddresses, WriteEncodings)
    \/ add_header(MaxCalls)
    \/ remove_header(MaxCalls)

Spec == Init /\ [][Next]_vars

\* the address of byte 0x17 of the internal header
SizeCodeAddress == (IF _type \in {LOROM, EXLOROM} THEN \h7FC0 ELSE \hFFC0) + \h17

\* C3 as stated: in every reachable state, also after earlier successful
\* expand calls, expand(target) with a target (a multiple of 4 in 4..32
\* megabits) that does not exceed the ROM's current size fails with the
\* state-conflict error and leaves buffer, size and header unchanged.
C3_ExpandNotLargerFails ==
    [][(/\ lifecycle = "ready"
        /\ ret'.op = "expand"
        /\ calls' = calls + 1
        /\ ret'.size \in {4, 8, 12, 16, 20, 24, 28, 32}
        /\ ret'.size * \h20000 <= _contents.len)
       => (/\ ~ret'.ok
           /\ ret'.err = ErrAlreadyThatSize
           /\ UNCHANGED <<_contents, _rom_size, _header, _rom_is_headered>>)]_vars

\* C4 as stated: after every successful expand(target), from any reachable
\* state, the buffer is target*0x20000 bytes long, every added byte is zero,
\* the byte at offset 0x17 of the internal header is 0x07 + bitlength(target-1),
\* and every other byte, the layout and the header flag are unchanged.
C4_ExpandResult ==
    [][(lifecycle = "ready" /\ ret'.op = "expand" /\ calls' = calls + 1 /\ ret'.ok)
       => (/\ _contents'.len = ret'.size * \h20000
           /\ \A a \in DOMAIN _contents'.bytes : a < _contents.len
           /\ ByteAt(_contents'.bytes, SizeCodeAddress) = 7 + bit_length(ret'.size - 1)
           /\ \A a \in (DOMAIN _contents.bytes \cup DOMAIN _contents'.bytes)
                           \ {SizeCodeAddress} :
                 ByteAt(_contents'.bytes, a) = ByteAt(_contents.bytes, a)
           /\ UNCHANGED <<_type, _rom_is_headered>>)]_vars

(***************************************************************************)
(* util.py: the tile codec.  Arrays are functions on 0-based indices, a    *)
(* two-dimensional array a[i][j] with axis 0 first; the numpy calls are    *)
(* modelled one by one.                                                    *)
(***************************************************************************)
RECURSIVE Pow2(_)
Pow2(n) == IF n = 0 THEN 1 ELSE 2 * Pow2(n - 1)

\* util.get_bit(byteval, idx), as 0 or 1
get_bit(byteval, idx) == (byteval \div Pow2(idx)) % 2

\* seq[start:stop:-2] of a 0-based sequence, for start > stop >= -1 (stop -1
\* stands for the omitted stop of seq[start::-2])
SliceDownBy2(seq, start, stop) ==
    [k \in 0..((start - stop - 1) \div 2) |-> seq[start - 2 * k]]

\* np.unpackbits of 8-bit values: bit b of the result is bit 7-b of the value
unpackbits(v) == [b \in 0..7 |-> get_bit(v, 7 - b)]

\* np.packbits of 8 bits: the first bit is the most significant
packbits(bits) ==
    bits[0] * 128 + bits[1] * 64 + bits[2] * 32 + bits[3] * 16
        + bits[4] * 8 + bits[5] * 4 + bits[6] * 2 + bits[7]

\* a.swapaxes(0,1)
swapaxes(a) == [i \in 0..7 |-> [j \in 0..7 |-> a[j][i]]]

\* np.fliplr(a): axis 1 reversed
fliplr(a) == [i \in 0..7 |-> [j \in 0..7 |-> a[i][7 - j]]]

\* np.flipud(a): axis 0 reversed
flipud(a) == [i \in 0..7 |-> [j \in 0..7 |-> a[7 - i][j]]]

\* the columns 4..7 of `tile` in convert_tile_from_bitplanes, the others zero
BitplaneColumns(raw_tile) ==
    LET col4 == SliceDownBy2(raw_tile, 31, 15)
        col5 == SliceDownBy2(raw_tile, 30, 14)
        col6 == SliceDownBy2(raw_tile, 15, -1)
        col7 == SliceDownBy2(raw_tile, 14, -1)
    IN  [k \in 0..7 |-> [m \in 0..7 |->
            CASE m = 4 -> col4[k] [] m = 5 -> col5[k] [] m = 6 -> col6[k]
              [] m = 7 -> col7[k] [] OTHER -> 0]]

\* convert_tile_from_bitplanes up to and including the reshape(8,8):
\* unpackbits along axis 2 of the (8,8,1) array, packbits along axis 1
FixedBits(tile) ==
    LET tile_bits == [k \in 0..7 |-> [m \in 0..7 |-> unpackbits(tile[k][m])]]
    IN  [k \in 0..7 |-> [b \in 0..7 |-> packbits([m \in 0..7 |-> tile_bits[k][m][b]])]]

\* convert_tile_from_bitplanes without the final fliplr
convert_tile_from_bitplanes_no_flip(raw_tile) ==
    swapaxes(FixedBits(BitplaneColumns(raw_tile)))

\* util.convert_tile_from_bitplanes(raw_tile)
convert_tile_from_bitplanes(raw_tile) ==
    fliplr(swapaxes(FixedBits(BitplaneColumns(raw_tile))))

\* np.ravel(tile[:, lo:lo+2])[::-1]
RavelReversed(tile, lo) ==
    LET ravel == [n \in 0..15 |-> tile[n \div 2][lo + (n % 2)]]
    IN  [n \in 0..15 |-> ravel[15 - n]]

\* util.convert_indexed_tile_to_bitplanes(indexed_tile), an 8x8 indexed_tile
convert_indexed_tile_to_bitplanes(indexed_tile) ==
    LET fixed_bits == swapaxes(fliplr(indexed_tile))
        \* unpackbits along axis 1 of the (8,1,8) array, packbits along axis 2
        tile_bits == [a \in 0..7 |-> [m \in 0..7 |-> [b \in 0..7 |->
                         unpackbits(fixed_bits[a][b])[m]]]]
        tile == [a \in 0..7 |-> [m \in 0..7 |-> packbits(tile_bits[a][m])]]
        low_bitplanes == RavelReversed(tile, 6)
        high_bitplanes == RavelReversed(tile, 4)
    IN  [n \in 0..31 |-> IF n < 16 THEN low_bitplanes[n] ELSE high_bitplanes[n - 16]]

(***************************************************************************)
(* SpecTile: the codec applied to tiles, and to what it returned.          *)
(***************************************************************************)
MaxCodecCalls == 2

\* the tile in a comment of convert_indexed_tile_to_bitplanes
CommentTile ==
    LET t == <<0, 0, 0, 0, 0, 0, 0, 0, 0, 0, 126, 82, 126, 82, 126, 18,
               0, 0, 0, 0, 0, 0, 0, 0, 0, 0, 44, 4, 44, 4, 124, 68>>
    IN  [n \in 0..31 |-> t[n + 1]]

\* packed tiles: one byte set on a background of 0x00 or 0xFF, a tile whose 32
\* bytes all differ, and the tile of the comment
RawTiles ==
    {[n \in 0..31 |-> IF n = at THEN v ELSE bg] :
        at \in 0..31, v \in {\h01, \h80, \hA5}, bg \in {\h00, \hFF}}
    \cup {[n \in 0..31 |-> (n * 37 + 11) % 256], CommentTile}

\* indexed tiles: one pixel set on a background, and a tile with every index
IndexedTiles ==
    {[i \in 0..7 |-> [j \in 0..7 |-> IF i = x /\ j = y THEN v ELSE bg]] :
        x \in 0..7, y \in 0..7, v \in {1, 6, 15}, bg \in {0, 8}}
    \cup {[i \in 0..7 |-> [j \in 0..7 |-> (3 * i + 5 * j) % 16]]}

InitTile ==
    /\ tile_in \in {[kind |-> "bitplanes", tile |-> t] : t \in RawTiles}
                       \cup {[kind |-> "indexed", tile |-> t] : t \in IndexedTiles}
    /\ tile_out = <<>>
    /\ file = [size |-> 0, bytes |-> EmptyBytes]
    /\ RomNotMade
    /\ tilemaps = <<>>
    /\ DMA_writes = <<>>
    /\ canvas = <<>>
    /\ next_tilemap = 0
    /\ image = Running

\* what the next codec call is made on: the argument, then the last result
CodecKind ==
    IF Len(tile_out) % 2 = 0 THEN tile_in.kind
    ELSE IF tile_in.kind = "bitplanes" THEN "indexed" ELSE "bitplanes"

CodecArgument == IF tile_out = <<>> THEN tile_in.tile ELSE tile_out[Len(tile_out)]

CallFromBitplanes ==
    /\ Len(tile_out) < MaxCodecCalls
    /\ CodecKind = "bitplanes"
    /\ tile_out' = Append(tile_out, convert_tile_from_bitplanes(CodecArgument))
    /\ UNCHANGED <<tile_in, romVars, imageVars>>

CallToBitplanes ==
    /\ Len(tile_out) < MaxCodecCalls
    /\ CodecKind = "indexed"
    /\ tile_out' = Append(tile_out, convert_indexed_tile_to_bitplanes(CodecArgument))
    /\ UNCHANGED <<tile_in, romVars, imageVars>>

NextTile == CallFromBitplanes \/ CallToBitplanes

SpecTile == InitTile /\ [][NextTile]_vars

\* the byte of a packed tile that holds plane p of row r
PlaneByte(r, p) == 2 * r + (p % 2) + 16 * (p \div 2)

\* C9: the codec is invertible both ways (encoding a decoded 32-byte tile gives
\* the tile back, decoding an encoded 8x8 grid of indices 0..15 gives the grid
\* back), and in a decoded tile the pixel of row r and column c (the entry
\* [c][r]: axis 0 is x, as the compositor uses it) has as bit p the bit 7-c of
\* byte 2r, 2r+1, 16+2r, 16+2r+1 for p = 0, 1, 2, 3.
C9_CodecInvertible ==
    /\ (tile_in.kind = "bitplanes" /\ Len(tile_out) >= 1) =>
          \A r \in 0..7, c \in 0..7, p \in 0..3 :
              get_bit(tile_out[1][c][r], p) = get_bit(tile_in.tile[PlaneByte(r, p)], 7 - c)
    /\ (tile_in.kind = "bitplanes" /\ Len(tile_out) >= 1) =>
          \A r \in 0..7, c \in 0..7 : tile_out[1][c][r] \in 0..15
    /\ (tile_in.kind = "indexed" /\ Len(tile_out) >= 1) =>
          \A r \in 0..7, c \in 0..7, p \in 0..3 :
              get_bit(tile_out[1][PlaneByte(r, p)], 7 - c) = get_bit(tile_in.tile[c][r], p)
    /\ Len(tile_out) >= 2 => tile_out[2] = tile_in.tile

\* C9 witness: the tile of the comment was decoded and encoded back; its pixel
\* at row 7, column 1 is 13 and the one at row 7, column 3 is 7
C9_Witness ==
    /\ tile_in.kind = "bitplanes"
    /\ tile_in.tile = CommentTile
    /\ Len(tile_out) = 2
    /\ tile_out[1][1][7] = 13
    /\ tile_out[1][3][7] = 7
    /\ tile_out[2] = CommentTile

(***************************************************************************)
(* util.py: image_from_raw_data and to_image.  A tilemap is a function on  *)
(* 0..4, the canvas a function on the coordinates <<x, y>> written so far. *)
(***************************************************************************)
RECURSIVE BitAnd(_, _)
\* a & b
BitAnd(a, b) ==
    IF a = 0 \/ b = 0 THEN 0
    ELSE (a % 2) * (b % 2) + 2 * BitAnd(a \div 2, b \div 2)

\* x_offset = tilemap[0] - (0x100 if get_bit(tilemap[1],0) else 0)
x_offset(tilemap) == tilemap[0] - (IF get_bit(tilemap[1], 0) = 1 THEN \h100 ELSE 0)

\* big_tile = (tilemap[1] & 0xC2 == 0xC2)
big_tile(tilemap) == BitAnd(tilemap[1], \hC2) = \hC2

\* y_offset = (tilemap[2] & 0x7F) - (0x80 if get_bit(tilemap[2],7) else 0)
y_offset(tilemap) ==
    BitAnd(tilemap[2], \h7F) - (IF get_bit(tilemap[2], 7) = 1 THEN \h80 ELSE 0)

v_flip(tilemap) == get_bit(tilemap[4], 7) = 1

h_flip(tilemap) == get_bit(tilemap[4], 6) = 1

priority(tilemap) == get_bit(tilemap[4], 5) = 1

\* palette_offset with the shift one bit short: the field at bits 2..4
palette_offset_bits_2_to_4(tilemap) == BitAnd(tilemap[4] * 4, 112)

\* palette_offset = (tilemap[4] << 3) & 0b1110000
palette_offset(tilemap) == BitAnd(tilemap[4] * 8, 112)

\* draw_tile_to_canvas with a priority system: an entry without the priority
\* bit does not draw over a pixel that is already on the canvas
draw_tile_to_canvas_by_priority(cv, dma, tilemap, new_x_offset, new_y_offset, new_index) ==
    LET decoded == convert_tile_from_bitplanes(dma[new_index])
        flipped == IF h_flip(tilemap) THEN flipud(decoded) ELSE decoded
        tile_to_write == IF v_flip(tilemap) THEN fliplr(flipped) ELSE flipped
        opaque == {ij \in (0..7) \X (0..7) : tile_to_write[ij[1]][ij[2]] # 0}
        target == {k \in {<<new_x_offset + ij[1], new_y_offset + ij[2]>> : ij \in opaque} :
                      priority(tilemap) \/ k \notin DOMAIN cv}
    IN  IF new_index \notin DOMAIN dma THEN Raise("KeyError")
        ELSE Return([k \in DOMAIN cv \cup target |->
                        IF k \in target
                        THEN palette_offset(tilemap)
                                 + tile_to_write[k[1] - new_x_offset][k[2] - new_y_offset]
                        ELSE cv[k]])

\* draw_tile_to_canvas(new_x_offset, new_y_offset, new_index) of the closure
\* made for tilemap: the canvas after it, or KeyError for a tile that
\* DMA_writes does not hold
draw_tile_to_canvas(cv, dma, tilemap, new_x_offset, new_y_offset, new_index) ==
    LET decoded == convert_tile_from_bitplanes(dma[new_index])
        flipped == IF h_flip(tilemap) THEN flipud(decoded) ELSE decoded
        tile_to_write == IF v_flip(tilemap) THEN fliplr(flipped) ELSE flipped
        opaque == {ij \in (0..7) \X (0..7) : tile_to_write[ij[1]][ij[2]] # 0}
        target == {<<new_x_offset + ij[1], new_y_offset + ij[2]>> : ij \in opaque}
    IN  IF new_index \notin DOMAIN dma THEN Raise("KeyError")
        ELSE Return([k \in DOMAIN cv \cup target |->
                        IF k \in target
                        THEN palette_offset(tilemap)
                                 + tile_to_write[k[1] - new_x_offset][k[2] - new_y_offset]
                        ELSE cv[k]])

\* the (x, y, index) of the draw_tile_to_canvas calls made for tilemap, in order
TileDraws(tilemap) ==
    LET x == x_offset(tilemap)
        y == y_offset(tilemap)
        index == tilemap[3]
        h == h_flip(tilemap)
        v == v_flip(tilemap)
    IN  IF big_tile(tilemap)
        THEN << <<x + (IF h THEN 8 ELSE 0), y + (IF v THEN 8 ELSE 0), index>>,
                <<x + (IF h THEN 0 ELSE 8), y + (IF v THEN 8 ELSE 0), index + \h01>>,
                <<x + (IF h THEN 8 ELSE 0), y + (IF v THEN 0 ELSE 8), index + \h10>>,
                <<x + (IF h THEN 0 ELSE 8), y + (IF v THEN 0 ELSE 8), index + \h11>> >>
        ELSE << <<x, y, index>> >>

RECURSIVE DrawAll(_, _, _, _)
\* the draws one after the other: the canvas after the last, or the canvas as
\* the first KeyError left it
DrawAll(cv, dma, tilemap, draws) ==
    IF draws = <<>> THEN [ok |-> TRUE, canvas |-> cv]
    ELSE LET drawn == draw_tile_to_canvas(cv, dma, tilemap,
                                          Head(draws)[1], Head(draws)[2], Head(draws)[3])
         IN  IF drawn.ok THEN DrawAll(drawn.val, dma, tilemap, Tail(draws))
             ELSE [ok |-> FALSE, canvas |-> cv]

\* to_image with the raster cut to the written coordinates, (0,0) not included
to_image_tight(cv) ==
    IF DOMAIN cv # {}
    THEN LET xs == {k[1] : k \in DOMAIN cv}
             ys == {k[2] : k \in DOMAIN cv}
             x_min == CHOOSE x \in xs : \A o \in xs : x <= o
             x_max == CHOOSE x \in xs : \A o \in xs : x >= o
             y_min == CHOOSE y \in ys : \A o \in ys : y <= o
             y_max == CHOOSE y \in ys : \A o \in ys : y >= o
             width == x_max - x_min + 1
             height == y_max - y_min + 1
             origin == <<-x_min, -y_min>>
         IN  [image |-> [size |-> <<width, height>>,
                         pixels |-> [xy \in (0..(width - 1)) \X (0..(height - 1)) |->
                                        IF <<xy[1] - origin[1], xy[2] - origin[2]>> \in DOMAIN cv
                                        THEN cv[<<xy[1] - origin[1], xy[2] - origin[2]>>]
                                        ELSE 0]],
              origin |-> origin]
    ELSE [image |-> None, origin |-> <<0, 0>>]

\* util.to_image(canvas), zoom 1: the image (its size and pixels) and the origin
to_image(cv) ==
    IF DOMAIN cv # {}
    THEN LET xs == {k[1] : k \in DOMAIN cv}
             ys == {k[2] : k \in DOMAIN cv}
             x_min == Min(0, CHOOSE x \in xs : \A o \in xs : x <= o)
             x_max == Max(0, CHOOSE x \in xs : \A o \in xs : x >= o)
             y_min == Min(0, CHOOSE y \in ys : \A o \in ys : y <= o)
             y_max == Max(0, CHOOSE y \in ys : \A o \in ys : y >= o)
             width == x_max - x_min + 1
             height == y_max - y_min + 1
             origin == <<-x_min, -y_min>>
         IN  [image |-> [size |-> <<width, height>>,
                         pixels |-> [xy \in (0..(width - 1)) \X (0..(height - 1)) |->
                                        IF <<xy[1] - origin[1], xy[2] - origin[2]>> \in DOMAIN cv
                                        THEN cv[<<xy[1] - origin[1], xy[2] - origin[2]>>]
                                        ELSE 0]],
              origin |-> origin]
    ELSE [image |-> None, origin |-> <<0, 0>>]

\* one pass of `for tilemap in tilemaps`
DrawTilemap ==
    /\ image = Running
    /\ next_tilemap < Len(tilemaps)
    /\ LET tilemap == tilemaps[next_tilemap + 1]
           drawn == DrawAll(canvas, DMA_writes, tilemap, TileDraws(tilemap))
       IN  /\ canvas' = drawn.canvas
           /\ next_tilemap' = IF drawn.ok THEN next_tilemap + 1 ELSE next_tilemap
           /\ image' = IF drawn.ok THEN Running ELSE Raise("KeyError")
    /\ UNCHANGED <<tilemaps, DMA_writes, romVars, tileVars>>

\* return to_image(canvas)
ReturnImage ==
    /\ image = Running
    /\ next_tilemap = Len(tilemaps)
    /\ image' = Return(to_image(canvas))
    /\ UNCHANGED <<tilemaps, DMA_writes, canvas, next_tilemap, romVars, tileVars>>

(***************************************************************************)
(* SpecImage: image_from_raw_data on short lists of tilemaps.              *)
(***************************************************************************)
MaxTilemaps == 2

Tilemap(b0, b1, b2, b3, b4) == [n \in 0..4 |-> <<b0, b1, b2, b3, b4>>[n + 1]]

\* bytes 0..4: x, size and x's ninth bit, y, tile index, flips/priority/palette
ImageTilemaps ==
    {Tilemap(10, \h00, 10, 1, \h00),    \* the opaque tile at (10,10)
     Tilemap(10, \h00, 10, 0, \h02),    \* bit 1 of byte 4
     Tilemap(10, \h00, 10, 0, \h10),    \* bit 4 of byte 4
     Tilemap(10, \h00, 10, 0, \h0E),    \* bits 1..3
     Tilemap(10, \h00, 10, 0, \h2E),    \* bits 1..3 and the priority bit
     Tilemap(12, \h00, 12, 0, \h44),    \* flipped horizontally
     Tilemap(12, \h00, 12, 0, \h88),    \* flipped vertically
     Tilemap(\hF8, \h01, \hFC, 0, \hC6), \* x = -8, y = -4, flipped both ways
     Tilemap(10, \hC2, 10, 0, \h04),    \* 16x16
     Tilemap(10, \hC2, 10, 0, \hD4),    \* 16x16, flipped both ways
     Tilemap(10, \hC3, 10, 1, \h00),    \* 16x16 that needs tile 2, which is missing
     Tilemap(14, \h00, 14, 1, \h20)}    \* the opaque tile with the priority bit

RECURSIVE SeqsUpTo(_, _)
\* the sequences of at most n elements of S
SeqsUpTo(S, n) ==
    IF n = 0 THEN {<<>>}
    ELSE LET shorter == SeqsUpTo(S, n - 1)
         IN  shorter \cup {Append(q, e) : q \in shorter, e \in S}

\* tiles 0x00, 0x01, 0x10 and 0x11: the tile of the comment, a tile whose
\* pixels are all 15, a tile whose bytes all differ, a tile with one pixel
ImageDMA ==
    (0 :> CommentTile) @@ (1 :> [n \in 0..31 |-> 255])
        @@ (16 :> [n \in 0..31 |-> (n * 37 + 11) % 256])
        @@ (17 :> [n \in 0..31 |-> IF n = 17 THEN 64 ELSE 0])

InitImage ==
    /\ tilemaps \in SeqsUpTo(ImageTilemaps, MaxTilemaps)
    /\ DMA_writes = ImageDMA
    /\ canvas = <<>>
    /\ next_tilemap = 0
    /\ image = Running
    /\ file = [size |-> 0, bytes |-> EmptyBytes]
    /\ RomNotMade
    /\ tile_in = None
    /\ tile_out = None

NextImage == DrawTilemap \/ ReturnImage

SpecImage == InitImage /\ [][NextImage]_vars

\* the index 0..15 of the pixel at row r, column c of a packed tile
PixelOf(raw_tile, r, c) ==
    get_bit(raw_tile[PlaneByte(r, 0)], 7 - c) + 2 * get_bit(raw_tile[PlaneByte(r, 1)], 7 - c)
        + 4 * get_bit(raw_tile[PlaneByte(r, 2)], 7 - c)
        + 8 * get_bit(raw_tile[PlaneByte(r, 3)], 7 - c)

\* The step composed a tilemap entry, and did so as C10 says with the palette
\* index read from the three bits of byte 4 that start at bit low_bit: with
\* x and y the entry's signed position, every pixel (row r, column c) of its
\* tile (of its four tiles index, index+1, index+0x10, index+0x11 when it is
\* 16x16) that has value v # 0 is on the canvas as palette_index*16 + v at the
\* coordinate the flips give (h_flip, bit 6, mirrors the columns; v_flip, bit 7,
\* the rows), and where v = 0 the canvas is as it was.
ComposedWithPaletteAt(low_bit) ==
    (image' = Running /\ next_tilemap' = next_tilemap + 1) =>
        LET entry == tilemaps[next_tilemap']
            x == entry[0] - 256 * (entry[1] % 2)
            y == (entry[2] % 128) - 128 * (entry[2] \div 128)
            is_big == entry[1] \div 64 = 3 /\ (entry[1] \div 2) % 2 = 1
            flip_v == entry[4] \div 128 = 1
            flip_h == (entry[4] \div 64) % 2 = 1
            palette_index == (entry[4] \div Pow2(low_bit)) % 8
            quadrants == IF is_big THEN {0, 1} \X {0, 1} ELSE {<<0, 0>>}
        IN  \A q \in quadrants, r \in 0..7, c \in 0..7 :
                LET v == PixelOf(DMA_writes[entry[3] + q[1] + 16 * q[2]], r, c)
                    qx == IF is_big /\ flip_h THEN 1 - q[1] ELSE q[1]
                    qy == IF is_big /\ flip_v THEN 1 - q[2] ELSE q[2]
                    k == <<x + 8 * qx + (IF flip_h THEN 7 - c ELSE c),
                           y + 8 * qy + (IF flip_v THEN 7 - r ELSE r)>>
                IN  IF v # 0
                    THEN k \in DOMAIN canvas' /\ canvas'[k] = palette_index * 16 + v
                    ELSE /\ k \in DOMAIN canvas' <=> k \in DOMAIN canvas
                         /\ k \in DOMAIN canvas => canvas'[k] = canvas[k]

\* C10 as stated: for every tilemap entry image_from_raw_data composes, each
\* non-zero pixel value v is written as palette_index*16 + v with palette_index
\* the 3-bit field at bits 2-4 of entry[4] (v_flip bit 7, h_flip bit 6), and a
\* pixel of value 0 is never written.
C10_PaletteBits2To4 == [][ComposedWithPaletteAt(2)]_vars

\* C10 amended: the same, with palette_index the 3-bit field at bits 1-3 of
\* entry[4], (entry[4] >> 1) & 7: each non-zero pixel value v is written as
\* palette_index*16 + v and a pixel of value 0 is never written.
C10_PaletteBits1To3 == [][ComposedWithPaletteAt(1)]_vars

\* C10 witness: the tile of the comment was composed at (10,10) with byte 4 =
\* 0x0E: its pixel 13 at row 7, column 1 is on the canvas as 7*16 + 13, and its
\* transparent pixel at row 7, column 0 is not on the canvas
C10_Witness ==
    /\ next_tilemap = 1
    /\ tilemaps[1] = Tilemap(10, 0, 10, 0, 14)
    /\ <<11, 17>> \in DOMAIN canvas
    /\ canvas[<<11, 17>>] = 7 * 16 + 13
    /\ <<10, 17>> \notin DOMAIN canvas

\* the least and the greatest of a non-empty finite set of integers
Least(S) == CHOOSE x \in S : \A o \in S : x <= o

Greatest(S) == CHOOSE x \in S : \A o \in S : x >= o

\* C11: for every non-empty canvas, to_image (zoom 1) returns a raster whose
\* extent is the bounding box of the written coordinates extended to include
\* (0,0): width = max(0,x_max) - min(0,x_min) + 1, height likewise, origin =
\* (-min(0,x_min), -min(0,y_min)); every written coordinate (x,y) is the pixel
\* (x+origin.x, y+origin.y) of the raster and holds the canvas value, the
\* origin pixel is inside the raster, and a single opaque 8x8 tile at (10,10)
\* gives the raster (0,0)-(17,17) with origin (0,0).
C11_RasterExtent ==
    (image.ok /\ DOMAIN canvas # {}) =>
        LET x_min == Least({k[1] : k \in DOMAIN canvas})
            x_max == Greatest({k[1] : k \in DOMAIN canvas})
            y_min == Least({k[2] : k \in DOMAIN canvas})
            y_max == Greatest({k[2] : k \in DOMAIN canvas})
            size == image.val.image.size
            pixels == image.val.image.pixels
            origin == image.val.origin
        IN  /\ size[1] = Max(0, x_max) - Min(0, x_min) + 1
            /\ size[2] = Max(0, y_max) - Min(0, y_min) + 1
            /\ origin = <<-Min(0, x_min), -Min(0, y_min)>>
            /\ DOMAIN pixels = (0..(size[1] - 1)) \X (0..(size[2] - 1))
            /\ \A k \in DOMAIN canvas :
                  /\ <<k[1] + origin[1], k[2] + origin[2]>> \in DOMAIN pixels
                  /\ pixels[<<k[1] + origin[1], k[2] + origin[2]>>] = canvas[k]
            /\ origin \in DOMAIN pixels
            /\ DOMAIN canvas = (10..17) \X (10..17) =>
                  size = <<18, 18>> /\ origin = <<0, 0>>

\* C11 witness: the opaque 8x8 tile alone at (10,10) was rasterized to 18x18
\* pixels with origin (0,0), its corner pixels at (10,10) and (17,17)
C11_Witness ==
    /\ image.ok
    /\ tilemaps = <<Tilemap(10, 0, 10, 1, 0)>>
    /\ DOMAIN canvas = (10..17) \X (10..17)
    /\ image.val.image.size = <<18, 18>>
    /\ image.val.origin = <<0, 0>>
    /\ image.val.image.pixels[<<10, 10>>] = 15
    /\ image.val.image.pixels[<<17, 17>>] = 15
    /\ image.val.image.pixels[<<0, 0>>] = 0

\* the coordinates one tilemap entry covers: 8x8 or 16x16 from its position
EntryBox(entry) ==
    LET x == entry[0] - 256 * (entry[1] % 2)
        y == (entry[2] % 128) - 128 * (entry[2] \div 128)
        side == IF entry[1] \div 64 = 3 /\ (entry[1] \div 2) % 2 = 1 THEN 16 ELSE 8
    IN  (x..(x + side - 1)) \X (y..(y + side - 1))

\* the pixel value 0..15 the entry has at coordinate k of its box: the flips
\* mirror the whole box, and a 16x16 box holds the tiles index, index+1,
\* index+0x10 and index+0x11 left to right, top to bottom
EntryPixel(entry, k) ==
    LET x == entry[0] - 256 * (entry[1] % 2)
        y == (entry[2] % 128) - 128 * (entry[2] \div 128)
        side == IF entry[1] \div 64 = 3 /\ (entry[1] \div 2) % 2 = 1 THEN 16 ELSE 8
        flip_v == entry[4] \div 128 = 1
        flip_h == (entry[4] \div 64) % 2 = 1
        c == IF flip_h THEN side - 1 - (k[1] - x) ELSE k[1] - x
        r == IF flip_v THEN side - 1 - (k[2] - y) ELSE k[2] - y
    IN  PixelOf(DMA_writes[entry[3] + (c \div 8) + 16 * (r \div 8)], r % 8, c % 8)

\* what the entry writes at coordinate k, where its pixel there is not 0
EntryValue(entry, k) == ((entry[4] \div 2) % 8) * 16 + EntryPixel(entry, k)

\* the entry with its priority bit (bit 5 of byte 4) cleared
WithoutPriority(entry) ==
    [entry EXCEPT ![4] = entry[4] - 32 * ((entry[4] \div 32) % 2)]

RECURSIVE Composed(_, _, _)
\* the canvas image_from_raw_data makes of the first n of the entries
Composed(entries, dma, n) ==
    IF n = 0 THEN <<>>
    ELSE DrawAll(Composed(entries, dma, n - 1), dma, entries[n], TileDraws(entries[n])).canvas

\* C12: overlapping draws are resolved by tilemap order alone: after any
\* sequence of entries was composed, the canvas holds at each coordinate the
\* value of the last entry in list order that has a non-zero pixel there (a
\* later entry's transparent pixel erases nothing, a coordinate no entry wrote
\* is not on the canvas), and the canvas is the one the same entries give with
\* their priority bits cleared, so that sequences that differ only in priority
\* bits give the same canvas.
C12_OrderAlone ==
    (image = Running \/ image.ok) =>
        LET done == 1..next_tilemap
        IN  /\ \A k \in DOMAIN canvas \cup UNION {EntryBox(tilemaps[i]) : i \in done} :
                  LET writers == {i \in done : /\ k \in EntryBox(tilemaps[i])
                                               /\ EntryPixel(tilemaps[i], k) # 0}
                  IN  IF writers = {} THEN k \notin DOMAIN canvas
                      ELSE /\ k \in DOMAIN canvas
                           /\ canvas[k] = EntryValue(tilemaps[Greatest(writers)], k)
            /\ canvas = Composed([i \in done |-> WithoutPriority(tilemaps[i])],
                                 DMA_writes, next_tilemap)

\* C12 witness: the opaque tile with the priority bit at (14,14), then the
\* tile of the comment without it at (10,10): at (14,15) the later pixel 5 of
\* palette 7 replaced the 15, at (14,14) the later tile is transparent and the
\* 15 stayed
C12_Witness ==
    /\ next_tilemap = 2
    /\ tilemaps = <<Tilemap(14, 0, 14, 1, 32), Tilemap(10, 0, 10, 0, 14)>>
    /\ canvas[<<14, 15>>] = 7 * 16 + 5
    /\ canvas[<<14, 14>>] = 15
    /\ <<10, 10>> \notin DOMAIN canvas

\* C13 as stated: in every state reached by write, expand, add_header and
\* remove_header calls on a constructed ROM, the recorded _rom_size equals the
\* length of the body buffer.
C13_SizeIsLength ==
    lifecycle = "ready" => _rom_size = _contents.len

=============================================================================
